---- MODULE Spec2Model ----
(***************************************************************************)
(* State-machine model of the ScolioAI front-end (src/index.tsx, the       *)
(* current revision of the App starting at line 344).                      *)
(*                                                                         *)
(* React state cells of App are the variables; every event handler and     *)
(* every continuation of an awaited promise is one action.  A handler      *)
(* closes over the state of the render in which it was created, so an      *)
(* outstanding handleAnalyze call carries the values it captured.          *)
(* Strings that the code inspects character by character (keys, error      *)
(* texts) are sequences of one-character strings.                          *)
(***************************************************************************)
EXTENDS Integers, Sequences, FiniteSets, TLC

\* ------------------------------------------------------------------ bounds
MaxHistory == 3       \* records the in-memory history can reach
StorageQuota == 2     \* history records that fit in on-device storage
NumFiles == 2         \* distinct image files the user can pick
MaxPad == 1           \* whitespace typed around a candidate key
MaxTimers == 1        \* auto-close timers pending at once

\* ------------------------------------------------------- program constants
MinKeyLength == 10    \* handleSaveApiKey: trimmedKey.length > 10

\* ----------------------------------------------------------------- strings
EmptyStr == << >>

Rep(c, n) == [i \in 1..n |-> c]

Whitespace == {" ", "\t"}

RECURSIVE TrimStart(_)
TrimStart(s) ==
    IF s # << >> /\ Head(s) \in Whitespace THEN TrimStart(Tail(s)) ELSE s

RECURSIVE TrimEnd(_)
TrimEnd(s) ==
    IF s # << >> /\ s[Len(s)] \in Whitespace
    THEN TrimEnd(SubSeq(s, 1, Len(s) - 1))
    ELSE s

\* String.prototype.trim
Trim(s) == TrimEnd(TrimStart(s))

UpperCase ==
    <<"A", "B", "C", "D", "E", "F", "G", "H", "I", "J", "K", "L", "M",
      "N", "O", "P", "Q", "R", "S", "T", "U", "V", "W", "X", "Y", "Z">>
LowerCase ==
    <<"a", "b", "c", "d", "e", "f", "g", "h", "i", "j", "k", "l", "m",
      "n", "o", "p", "q", "r", "s", "t", "u", "v", "w", "x", "y", "z">>

LowerOf(c) ==
    IF \E i \in 1..Len(UpperCase) : UpperCase[i] = c
    THEN LowerCase[CHOOSE i \in 1..Len(UpperCase) : UpperCase[i] = c]
    ELSE c

\* String.prototype.toLowerCase
ToLowerCase(s) == [i \in 1..Len(s) |-> LowerOf(s[i])]

\* String.prototype.includes
Includes(s, p) ==
    \E i \in 0..(Len(s) - Len(p)) : SubSeq(s, i + 1, i + Len(p)) = p

\* JavaScript truthiness of a string ('' is falsy)
Truthy(s) == s # EmptyStr

\* a nullable value: << >> is null/absent, <<v>> holds v
None == << >>
Some(v) == <<v>>

\* JavaScript  a || b
OrElse(a, b) == IF Truthy(a) THEN a ELSE b

\* the value of an absent property, where the model needs it as text
Undefined == <<"undefined">>

DigitChars == <<"0", "1", "2", "3", "4", "5", "6", "7", "8", "9">>

RECURSIVE Digits(_)
Digits(n) ==
    IF n < 10 THEN <<DigitChars[n + 1]>>
    ELSE Digits(n \div 10) \o <<DigitChars[(n % 10) + 1]>>

\* String(n) for an integer n
NumberToString(n) == IF n < 0 THEN <<"-">> \o Digits(0 - n) ELSE Digits(n)

\* n.toFixed(1) for an integer n
ToFixed1(n) == NumberToString(n) \o <<".", "0">>

\* -------------------------------------------------------------- input sets
Files == 1..NumFiles

\* values the deployment can inject under each recognised alias
ViteKey == <<"v">>
ReactKey == <<"r">>
NextKey == <<"n">>
NodeKey == <<"a">>

EnvConfigs ==
    [VITE_API_KEY : {EmptyStr, ViteKey},
     REACT_APP_API_KEY : {EmptyStr, ReactKey},
     NEXT_PUBLIC_API_KEY : {EmptyStr, NextKey},
     API_KEY : {EmptyStr, NodeKey}]

NoEnv ==
    [VITE_API_KEY |-> EmptyStr, REACT_APP_API_KEY |-> EmptyStr,
     NEXT_PUBLIC_API_KEY |-> EmptyStr, API_KEY |-> EmptyStr]
NodeEnv == [NoEnv EXCEPT !.API_KEY = NodeKey]
FullEnv ==
    [VITE_API_KEY |-> ViteKey, REACT_APP_API_KEY |-> ReactKey,
     NEXT_PUBLIC_API_KEY |-> NextKey, API_KEY |-> NodeKey]

\* a key saved in an earlier session (it passed handleSaveApiKey then)
EarlierKey == Rep("s", MinKeyLength + 1)

\* what the user can type into the settings field: a body between runs of
\* whitespace; the last body has 11 characters, one of them an inner blank
KeyBodies ==
    { EmptyStr,
      Rep("k", MinKeyLength),
      Rep("k", MinKeyLength \div 2) \o <<" ">> \o Rep("k", MinKeyLength \div 2) }

KeyCandidates ==
    { Rep(" ", l) \o body \o Rep("\t", r) :
        l \in 0..MaxPad, r \in 0..MaxPad, body \in KeyBodies }

\* what the model can answer: {cobbAngle, classification}
Normal == <<"N", "o", "r", "m", "a", "l">>
Mild == <<"M", "i", "l", "d">>
HighRisk == <<"H", "i", "g", "h", "-", "R", "i", "s", "k">>
Inconclusive == <<"I", "n", "c", "o", "n", "c", "l", "u", "s", "i", "v", "e">>

Payloads ==
    { [cobbAngle |-> 14, classification |-> Mild],
      [cobbAngle |-> -1, classification |-> Inconclusive] }

NoPayload == [cobbAngle |-> 0, classification |-> EmptyStr]

\* response.text of a resolved generateContent call
ResponseTexts ==
    { [kind |-> "empty", value |-> NoPayload],
      [kind |-> "garbage", value |-> NoPayload] }
    \cup { [kind |-> "json", value |-> p] : p \in Payloads }

\* answers the response schema admits (a number and a string) that lie
\* outside the data model: an Inconclusive with an angle, a classification
\* in another letter case, a classification that is none of the four
OffContractPayloads ==
    { [cobbAngle |-> 14, classification |-> Inconclusive],
      [cobbAngle |-> 26,
       classification |-> <<"H", "I", "G", "H", "-", "R", "I", "S", "K">>],
      [cobbAngle |-> 30, classification |-> <<"S", "e", "v", "e", "r", "e">>] }

\* the JSON text  null : it parses, to a value without properties
JsonNullText == [kind |-> "null", value |-> NoPayload]

\* every response.text the analysis is exercised with
AnyResponseTexts ==
    ResponseTexts
        \cup { [kind |-> "json", value |-> p] : p \in OffContractPayloads }
        \cup { JsonNullText }

\* e.toString() of what generateContent can reject with
ApiErrorTexts ==
    { <<"4", "2", "9">>,
      <<"Q", "u", "o", "t", "a">>,
      <<"A", "P", "I", " ", "k", "e", "y">>,
      <<"4", "0", "3">>,
      <<"4", "0", "0">>,
      <<"S", "A", "F", "E", "T", "Y">>,
      <<"f", "e", "t", "c", "h">>,
      <<"4", "2", "9", " ", "k", "e", "y">>,
      <<"K", "e", "y", " ", "4", "0", "0">>,
      <<"4", "0", "0", " ", "s", "a", "f", "e", "t", "y">> }

\* e.toString() of the errors raised locally ("#" stands for non-ASCII text)
ImageProcessingError == <<"E", "r", "r", "o", "r", ":", " ", "#", "1">>
NoResponseError == <<"E", "r", "r", "o", "r", ":", " ", "#", "2">>
JsonSyntaxError == <<"S", "y", "n", "t", "a", "x", "E", "r", "r", "o", "r">>
QuotaExceededError ==
    <<"Q", "u", "o", "t", "a", "E", "x", "c", "e", "e", "d", "e", "d",
      "E", "r", "r", "o", "r">>
NotIterableError ==
    <<"T", "y", "p", "e", "E", "r", "r", "o", "r", ":", " ", "#", " ", "i", "s", " ",
      "n", "o", "t", " ", "i", "t", "e", "r", "a", "b", "l", "e">>

\* the messages shown to the user
MsgNone == ""
MsgKeyRequired == "KEY_REQUIRED"
MsgQuota == "QUOTA_EXCEEDED"
MsgAuth == "AUTH_FAILED"
MsgBadImage == "BAD_IMAGE"
MsgSafety == "CONTENT_POLICY"
MsgNetwork == "GENERIC_NETWORK"
MsgNoImage == "NO_IMAGE"

\* ------------------------------------------------------------------- state
VARIABLES
    env,                      \* import.meta.env / process.env, fixed at start
    emailjs,                  \* window.emailjs is present
    lsKey,                    \* localStorage['gemini_api_key']
    lsHistory,                \* localStorage['scolio_history']
    mounted,                  \* the initialize effect has run
    emailInitialized,         \* window.emailjs.init was called
    loadListener,             \* initEmailJS waits for the window load event
    imageFile,                \* 0 is null
    isLoading,
    result,
    error,
    isConsultationModalOpen,
    isSettingsModalOpen,
    isSending,
    formMessage,
    manualApiKey,
    envKeyDetected,
    history,                  \* the items of the history state cell when it holds an array
    historyKind,              \* what the history state cell holds: "array" or another JSON type
    calls,                    \* outstanding handleAnalyze invocations
    now,                      \* Date.now()
    completed,                \* analyses that ran their try block to its end
    sends,                    \* template parameters of outstanding emailjs.send calls
    timers,                   \* pending 3 s auto-close timers
    formData,                 \* the fields of the mounted ConsultationModal
    img,                      \* the Image compressImage decodes: its width and height
    canvas,                   \* the canvas compressImage sizes: its width and height
    prepared                  \* the promise of compressImage: pending, resolved, rejected

storageVars == <<lsKey, lsHistory>>
analysisVars ==
    <<imageFile, isLoading, result, error, history, historyKind, calls, now, completed>>
modalVars == <<isConsultationModalOpen, isSettingsModalOpen>>
contactVars == <<isSending, formMessage, sends, timers, formData>>
startVars == <<env, emailjs, mounted, emailInitialized, loadListener, envKeyDetected>>
imageVars == <<img, canvas, prepared>>

vars ==
    <<env, emailjs, lsKey, lsHistory, mounted, emailInitialized, loadListener,
      imageFile, isLoading, result, error, isConsultationModalOpen,
      isSettingsModalOpen, isSending, formMessage,
      manualApiKey, envKeyDetected, history, historyKind, calls, now, completed, sends,
      timers, formData, img, canvas, prepared>>

\* ----------------------------------------------------------------- storage
\* a value of localStorage['scolio_history']: absent, text that does not
\* parse, or the JSON text of an array of records
StoredAbsent == [kind |-> "absent", items |-> << >>]
StoredCorrupt == [kind |-> "corrupt", items |-> << >>]

\* JSON text that parses to something other than an array: 'null', '5', '{}'
StoredNonArrays == {[kind |-> k, items |-> << >>] : k \in {"null", "number", "object"}}

\* JSON.stringify(updatedHistory)
JSONStringify(items) == [kind |-> "array", items |-> items]

\* JSON.parse('null'): null, which has no property to read or spread
JsonNull == << >>

\* JSON.parse(savedHistory)
JSONParse(v) == [threw |-> v.kind = "corrupt", value |-> v.items, kind |-> v.kind]

\* a record written by an earlier session
EarlierItem == [cobbAngle |-> 7, classification |-> Normal, date |-> 0, timestamp |-> 0]

\* ------------------------------------------------------ credential resolver
getEnvConfig(e) ==
    [apiKey |->
        LET vite == IF Truthy(e.VITE_API_KEY) THEN e.VITE_API_KEY ELSE EmptyStr
        IN  IF ~Truthy(vite)
            THEN OrElse(e.REACT_APP_API_KEY,
                        OrElse(e.NEXT_PUBLIC_API_KEY, OrElse(e.API_KEY, EmptyStr)))
            ELSE vite]

\* localStorage.getItem('gemini_api_key') || ''
StoredKeyOrEmpty(k) == IF k = None THEN EmptyStr ELSE k[1]

\* mutant: the user's key is tried before the deployment's
ResolveApiKey_SavedFirst(e, manual, stored) ==
    LET k1 == manual
        k2 == IF ~Truthy(k1) THEN StoredKeyOrEmpty(stored) ELSE k1
        k3 == IF ~Truthy(k2) THEN getEnvConfig(e).apiKey ELSE k2
    IN  k3

\* handleAnalyze, key resolution
ResolveApiKey(e, manual, stored) ==
    LET k1 == getEnvConfig(e).apiKey
        k2 == IF ~Truthy(k1) THEN manual ELSE k1
        k3 == IF ~Truthy(k2) THEN StoredKeyOrEmpty(stored) ELSE k2
    IN  k3

\* handleAnalyze: if (!apiKey) { open settings; set error; return }
\* mutant: the check is skipped
CredentialsMissing_Skipped(apiKey) == FALSE
CredentialsMissing(apiKey) == ~Truthy(apiKey)

\* mutant: a trimmed key of exactly MinKeyLength characters is accepted
ValidateKey_OffByOne(key) ==
    LET trimmedKey == Trim(key)
    IN  [accepted |-> Len(trimmedKey) >= MinKeyLength, trimmedKey |-> trimmedKey]

\* handleSaveApiKey: the key to persist, or rejected
ValidateKey(key) ==
    LET trimmedKey == Trim(key)
    IN  [accepted |-> Len(trimmedKey) > MinKeyLength, trimmedKey |-> trimmedKey]

\* ------------------------------------------------------ failure classifier
\* handleAnalyze, catch block
\* mutant: the error text is tested as thrown, not lowercased
ClassifyError_CaseSensitive(e) ==
    LET errorString == e
    IN  IF Includes(errorString, <<"4", "2", "9">>)
           \/ Includes(errorString, <<"q", "u", "o", "t", "a">>)
        THEN [msg |-> MsgQuota, openSettings |-> TRUE]
        ELSE IF Includes(errorString, <<"k", "e", "y">>)
                \/ Includes(errorString, <<"4", "0", "3">>)
                \/ Includes(errorString, <<"4", "0", "1">>)
        THEN [msg |-> MsgAuth, openSettings |-> TRUE]
        ELSE IF Includes(errorString, <<"4", "0", "0">>)
        THEN [msg |-> MsgBadImage, openSettings |-> FALSE]
        ELSE IF Includes(errorString, <<"s", "a", "f", "e", "t", "y">>)
        THEN [msg |-> MsgSafety, openSettings |-> FALSE]
        ELSE [msg |-> MsgNetwork, openSettings |-> FALSE]

\* mutant: every failure sends the user to the settings panel
ClassifyError_AlwaysOpens(e) ==
    LET errorString == ToLowerCase(e)
    IN  IF Includes(errorString, <<"4", "2", "9">>)
           \/ Includes(errorString, <<"q", "u", "o", "t", "a">>)
        THEN [msg |-> MsgQuota, openSettings |-> TRUE]
        ELSE IF Includes(errorString, <<"k", "e", "y">>)
                \/ Includes(errorString, <<"4", "0", "3">>)
                \/ Includes(errorString, <<"4", "0", "1">>)
        THEN [msg |-> MsgAuth, openSettings |-> TRUE]
        ELSE IF Includes(errorString, <<"4", "0", "0">>)
        THEN [msg |-> MsgBadImage, openSettings |-> TRUE]
        ELSE IF Includes(errorString, <<"s", "a", "f", "e", "t", "y">>)
        THEN [msg |-> MsgSafety, openSettings |-> TRUE]
        ELSE [msg |-> MsgNetwork, openSettings |-> TRUE]

\* mutant: the credential patterns are tested before the rate-limit ones
ClassifyError_AuthFirst(e) ==
    LET errorString == ToLowerCase(e)
    IN  IF Includes(errorString, <<"k", "e", "y">>)
           \/ Includes(errorString, <<"4", "0", "3">>)
           \/ Includes(errorString, <<"4", "0", "1">>)
        THEN [msg |-> MsgAuth, openSettings |-> TRUE]
        ELSE IF Includes(errorString, <<"4", "2", "9">>)
                \/ Includes(errorString, <<"q", "u", "o", "t", "a">>)
        THEN [msg |-> MsgQuota, openSettings |-> TRUE]
        ELSE IF Includes(errorString, <<"4", "0", "0">>)
        THEN [msg |-> MsgBadImage, openSettings |-> FALSE]
        ELSE IF Includes(errorString, <<"s", "a", "f", "e", "t", "y">>)
        THEN [msg |-> MsgSafety, openSettings |-> FALSE]
        ELSE [msg |-> MsgNetwork, openSettings |-> FALSE]

ClassifyError(e) ==
    LET errorString == ToLowerCase(e)
    IN  IF Includes(errorString, <<"4", "2", "9">>)
           \/ Includes(errorString, <<"q", "u", "o", "t", "a">>)
        THEN [msg |-> MsgQuota, openSettings |-> TRUE]
        ELSE IF Includes(errorString, <<"k", "e", "y">>)
                \/ Includes(errorString, <<"4", "0", "3">>)
                \/ Includes(errorString, <<"4", "0", "1">>)
        THEN [msg |-> MsgAuth, openSettings |-> TRUE]
        ELSE IF Includes(errorString, <<"4", "0", "0">>)
        THEN [msg |-> MsgBadImage, openSettings |-> FALSE]
        ELSE IF Includes(errorString, <<"s", "a", "f", "e", "t", "y">>)
        THEN [msg |-> MsgSafety, openSettings |-> FALSE]
        ELSE [msg |-> MsgNetwork, openSettings |-> FALSE]

\* ------------------------------------------------------------ history store
\* JavaScript  {...a, ...b}: the properties of a, then those of b over them;
\* spreading null or undefined contributes no property
Spread(a, b) ==
    [f \in DOMAIN a \cup DOMAIN b |-> IF f \in DOMAIN b THEN b[f] ELSE a[f]]

\* mutant: the new record is put behind the earlier ones
saveToHistory_OldestFirst(newResult, hist, stored, t) ==
    LET newItem == Spread(newResult, [date |-> t, timestamp |-> t])
        updatedHistory == hist \o <<newItem>>
        fits == Len(updatedHistory) <= StorageQuota
    IN  [history |-> updatedHistory,
         stored |-> IF fits THEN JSONStringify(updatedHistory) ELSE stored,
         threw |-> ~fits]

\* saveToHistory(newResult), run in the closure that captured `hist`.
\* localStorage.setItem throws QuotaExceededError when the value does not
\* fit; the history is the one stored value that grows, so the quota is
\* counted in history records.
saveToHistory(newResult, hist, stored, t) ==
    LET newItem == Spread(newResult, [date |-> t, timestamp |-> t])
        updatedHistory == <<newItem>> \o hist
        fits == Len(updatedHistory) <= StorageQuota
    IN  [history |-> updatedHistory,
         stored |-> IF fits THEN JSONStringify(updatedHistory) ELSE stored,
         threw |-> ~fits]

\* mutant: JSON.parse is not wrapped in try/catch
LoadHistory_Uncaught(stored) ==
    IF stored.kind = "absent"
    THEN [set |-> FALSE, value |-> << >>, kind |-> "array", escaped |-> FALSE]
    ELSE LET parsed == JSONParse(stored)
         IN  IF parsed.threw
             THEN [set |-> FALSE, value |-> << >>, kind |-> "array", escaped |-> TRUE]
             ELSE [set |-> TRUE, value |-> parsed.value, kind |-> parsed.kind,
                   escaped |-> FALSE]

\* initialize effect, history load: whether setHistory is called and with
\* what, and whether an exception leaves the effect
LoadHistory(stored) ==
    IF stored.kind = "absent"
    THEN [set |-> FALSE, value |-> << >>, kind |-> "array", escaped |-> FALSE]
    ELSE LET parsed == JSONParse(stored)
         IN  IF parsed.threw
             THEN [set |-> FALSE, value |-> << >>, kind |-> "array", escaped |-> FALSE]
             ELSE [set |-> TRUE, value |-> parsed.value, kind |-> parsed.kind,
                   escaped |-> FALSE]

\* -------------------------------------------------------- result interpreter
\* mutant: the switch is on the classification as given
getResultCardClassName_CaseSensitive(classification) ==
    LET c == classification
    IN  CASE c = ToLowerCase(Normal) -> "normal"
          [] c = ToLowerCase(Mild) -> "mild"
          [] c = ToLowerCase(HighRisk) -> "high-risk"
          [] c = ToLowerCase(Inconclusive) -> "high-risk"
          [] OTHER -> ""

getResultCardClassName(classification) ==
    LET c == ToLowerCase(classification)
    IN  CASE c = ToLowerCase(Normal) -> "normal"
          [] c = ToLowerCase(Mild) -> "mild"
          [] c = ToLowerCase(HighRisk) -> "high-risk"
          [] c = ToLowerCase(Inconclusive) -> "high-risk"
          [] OTHER -> ""

getResultContent(classification) ==
    LET c == ToLowerCase(classification)
    IN  CASE c = ToLowerCase(Normal) -> "TEXT_NORMAL_RANGE"
          [] c = ToLowerCase(Mild) -> "TEXT_MILD_CONSULT_RECOMMENDED"
          [] c = ToLowerCase(HighRisk) -> "TEXT_HIGH_RISK_DIAGNOSIS_NEEDED"
          [] c = ToLowerCase(Inconclusive) -> "TEXT_ANALYSIS_FAILED_RETRY"
          [] OTHER -> "TEXT_CHECK_YOUR_RESULTS"

\* the angle as the result card shows it:
\* {result.cobbAngle === -1 ? '--' : result.cobbAngle.toFixed(1)}°
ResultAngleText(r) ==
    (IF r.cobbAngle = -1 THEN <<"-", "-">> ELSE ToFixed1(r.cobbAngle)) \o <<"°">>

\* the angle as a row of the history list shows it:
\* {item.cobbAngle > -1 ? `${item.cobbAngle}°` : '--'}
HistoryAngleText(item) ==
    IF "cobbAngle" \in DOMAIN item /\ item.cobbAngle > -1
    THEN NumberToString(item.cobbAngle) \o <<"°">>
    ELSE <<"-", "-">>

\* the severity label of a row of the history list:
\* item.classification === 'Normal' ? '정상' : item.classification === 'Mild' ? '경미' : '위험'
LabelNormal == "LABEL_NORMAL"
LabelMild == "LABEL_MILD"
LabelDanger == "LABEL_DANGER"

HistoryLabel(item) ==
    IF item.classification = Normal THEN LabelNormal
    ELSE IF item.classification = Mild THEN LabelMild
    ELSE LabelDanger

\* ------------------------------------------------------------------ render
\* what the App renders decides which handlers the user can reach
UploadControlsShown == result = None
\* mutant: the analyze button stays on screen while a call is outstanding
AnalyzeButtonShown_WhileLoading == result = None /\ imageFile # 0
AnalyzeButtonShown == result = None /\ imageFile # 0 /\ ~isLoading
ResultViewShown == result # None
\* mutant: the submit button is not disabled while a submission is being sent
SubmitButtonEnabled_WhileSending == isConsultationModalOpen
SubmitButtonEnabled == isConsultationModalOpen /\ ~isSending

\* ------------------------------------------------------------------- start
\* the page before its first effect runs: every state cell at its useState
\* default, the deployment and the device storage as the session finds them
Fresh ==
    /\ mounted = FALSE
    /\ emailInitialized = FALSE
    /\ loadListener = FALSE
    /\ imageFile = 0
    /\ isLoading = FALSE
    /\ result = None
    /\ error = MsgNone
    /\ isConsultationModalOpen = FALSE
    /\ isSettingsModalOpen = FALSE
    /\ isSending = FALSE
    /\ formMessage = "null"
    /\ manualApiKey = EmptyStr
    /\ envKeyDetected = FALSE
    /\ history = << >>
    /\ historyKind = "array"
    /\ calls = << >>
    /\ now = 1
    /\ completed = 0
    /\ sends = << >>
    /\ timers = 0
    /\ formData = None

\* no image is being decoded and no canvas exists
NoPreparation ==
    /\ img = None
    /\ canvas = None
    /\ prepared = "pending"

\* what a session can find: no key anywhere, a saved key, an injected key,
\* both; the stored history absent, unparseable or written by an earlier
\* session; the email library loaded or not
StartConfigs ==
    { [env |-> NoEnv, lsKey |-> None, lsHistory |-> StoredAbsent, emailjs |-> TRUE],
      [env |-> NoEnv, lsKey |-> None, lsHistory |-> StoredCorrupt, emailjs |-> FALSE],
      [env |-> NoEnv, lsKey |-> Some(EarlierKey),
       lsHistory |-> JSONStringify(<<EarlierItem>>), emailjs |-> TRUE],
      [env |-> NoEnv, lsKey |-> Some(EarlierKey), lsHistory |-> StoredCorrupt,
       emailjs |-> TRUE],
      [env |-> NodeEnv, lsKey |-> None, lsHistory |-> StoredAbsent, emailjs |-> FALSE],
      [env |-> FullEnv, lsKey |-> Some(EarlierKey),
       lsHistory |-> JSONStringify(<<EarlierItem>>), emailjs |-> FALSE] }

Init ==
    /\ \E c \in StartConfigs :
          /\ env = c.env
          /\ lsKey = c.lsKey
          /\ lsHistory = c.lsHistory
          /\ emailjs = c.emailjs
    /\ Fresh
    /\ NoPreparation

\* every deployment, for the credential resolver
InitCred ==
    /\ env \in EnvConfigs
    /\ lsKey \in {None, Some(EarlierKey)}
    /\ lsHistory = StoredAbsent
    /\ emailjs = TRUE
    /\ Fresh
    /\ NoPreparation

\* useEffect(() => {...}, []) of App
Initialize ==
    /\ ~mounted
    /\ mounted' = TRUE
    /\ envKeyDetected' = Truthy(getEnvConfig(env).apiKey)
    /\ manualApiKey' = IF Truthy(StoredKeyOrEmpty(lsKey)) THEN lsKey[1] ELSE manualApiKey
    /\ LET load == LoadHistory(lsHistory)
       IN  /\ history' = IF load.set THEN load.value ELSE history
           /\ historyKind' = IF load.set THEN load.kind ELSE historyKind
           /\ IF load.escaped
              THEN UNCHANGED <<emailInitialized, loadListener>>
              ELSE \E complete \in BOOLEAN :
                     IF complete
                     THEN /\ emailInitialized' = emailjs
                          /\ UNCHANGED loadListener
                     ELSE /\ loadListener' = TRUE
                          /\ UNCHANGED emailInitialized
    /\ UNCHANGED <<env, emailjs, storageVars, imageFile, isLoading, result, error,
                   modalVars, contactVars, calls, now, completed>>
    /\ UNCHANGED imageVars

\* the window load event runs initEmailJS
WindowLoad ==
    /\ loadListener
    /\ loadListener' = FALSE
    /\ emailInitialized' = emailjs
    /\ UNCHANGED <<env, emailjs, storageVars, mounted, envKeyDetected, manualApiKey,
                   analysisVars, modalVars, contactVars>>
    /\ UNCHANGED imageVars

\* ------------------------------------------------------------ user actions
\* what handleSaveApiKey makes of each string the user can submit
KeyValidation == [key \in KeyCandidates |-> ValidateKey(key)]

handleFileSelect(file) ==
    /\ mounted
    /\ UploadControlsShown
    /\ imageFile' = file
    /\ result' = None
    /\ error' = MsgNone
    /\ UNCHANGED <<startVars, storageVars, manualApiKey, isLoading, history, historyKind, calls,
                   now, completed, modalVars, contactVars>>
    /\ UNCHANGED imageVars

\* mutant: the accepted key is written to storage but not to the state cell
handleSaveApiKey_StorageOnly(key) ==
    /\ isSettingsModalOpen
    /\ UNCHANGED <<imageFile, isLoading, result, history, historyKind, calls, now, completed,
                   isConsultationModalOpen, contactVars, lsHistory, startVars>>
    /\ LET v == KeyValidation[key]
       IN  IF v.accepted
           THEN /\ lsKey' = Some(v.trimmedKey)
                /\ error' = MsgNone
                /\ isSettingsModalOpen' = FALSE
                /\ UNCHANGED manualApiKey
           ELSE UNCHANGED <<lsKey, manualApiKey, error, isSettingsModalOpen>>
    /\ UNCHANGED imageVars

handleSaveApiKey(key) ==
    /\ isSettingsModalOpen
    /\ UNCHANGED <<imageFile, isLoading, result, history, historyKind, calls, now, completed,
                   isConsultationModalOpen, contactVars, lsHistory, startVars>>
    /\ LET v == KeyValidation[key]
       IN  IF v.accepted
           THEN /\ lsKey' = Some(v.trimmedKey)
                /\ manualApiKey' = v.trimmedKey
                /\ error' = MsgNone
                /\ isSettingsModalOpen' = FALSE
           ELSE UNCHANGED <<lsKey, manualApiKey, error, isSettingsModalOpen>>
    /\ UNCHANGED imageVars

\* handleAnalyze up to its first await
handleAnalyze ==
    /\ mounted
    /\ AnalyzeButtonShown
    /\ Len(history) < MaxHistory
    /\ LET apiKey == ResolveApiKey(env, manualApiKey, lsKey)
       IN  IF imageFile = 0
           THEN /\ error' = MsgNoImage
                /\ UNCHANGED <<isSettingsModalOpen, isLoading, result, calls>>
           ELSE IF CredentialsMissing(apiKey)
           THEN /\ isSettingsModalOpen' = TRUE
                /\ error' = MsgKeyRequired
                /\ UNCHANGED <<isLoading, result, calls>>
           ELSE /\ isLoading' = TRUE
                /\ error' = MsgNone
                /\ result' = None
                /\ calls' = Append(calls, [stage |-> "compressImage",
                                           apiKey |-> apiKey,
                                           file |-> imageFile,
                                           history |-> history,
                                           historyKind |-> historyKind])
                /\ UNCHANGED isSettingsModalOpen
    /\ UNCHANGED <<startVars, storageVars, manualApiKey, imageFile, history, historyKind, now,
                   completed, isConsultationModalOpen, contactVars>>
    /\ UNCHANGED imageVars

handleReset ==
    /\ ResultViewShown
    /\ imageFile' = 0
    /\ result' = None
    /\ error' = MsgNone
    /\ UNCHANGED <<startVars, storageVars, manualApiKey, isLoading, history, historyKind, calls,
                   now, completed, modalVars, contactVars>>
    /\ UNCHANGED imageVars

OpenSettings ==
    /\ mounted
    /\ UploadControlsShown
    /\ ~isSettingsModalOpen
    /\ isSettingsModalOpen' = TRUE
    /\ UNCHANGED <<startVars, storageVars, manualApiKey, analysisVars,
                   isConsultationModalOpen, contactVars>>
    /\ UNCHANGED imageVars

CloseSettings ==
    /\ isSettingsModalOpen
    /\ isSettingsModalOpen' = FALSE
    /\ UNCHANGED <<startVars, storageVars, manualApiKey, analysisVars,
                   isConsultationModalOpen, contactVars>>
    /\ UNCHANGED imageVars

\* ------------------------------------------- continuations of handleAnalyze
RemoveAt(s, i) == SubSeq(s, 1, i - 1) \o SubSeq(s, i + 1, Len(s))

\* everything the catch block of handleAnalyze can be handed
ErrorTexts ==
    ApiErrorTexts
        \cup {ImageProcessingError, NoResponseError, JsonSyntaxError, QuotaExceededError,
              NotIterableError}

\* what the catch block makes of each of them
Classified == [e \in ErrorTexts |-> ClassifyError(e)]

\* mutant: the busy flag is cleared only at the end of the try block
CatchAndFinally_NoFinally(i, e) ==
    /\ error' = Classified[e].msg
    /\ isSettingsModalOpen' = (Classified[e].openSettings \/ isSettingsModalOpen)
    /\ isLoading' = isLoading
    /\ calls' = RemoveAt(calls, i)

\* catch (e) { ... setError(errorMsg) } finally { setIsLoading(false) }
CatchAndFinally(i, e) ==
    /\ error' = Classified[e].msg
    /\ isSettingsModalOpen' = (Classified[e].openSettings \/ isSettingsModalOpen)
    /\ isLoading' = FALSE
    /\ calls' = RemoveAt(calls, i)

\* compressImage(imageFile) settles
CompressSettle(i, ok) ==
    /\ i \in 1..Len(calls)
    /\ calls[i].stage = "compressImage"
    /\ IF ok
       THEN /\ calls' = [calls EXCEPT ![i].stage = "generateContent"]
            /\ UNCHANGED <<error, isSettingsModalOpen, isLoading>>
       ELSE CatchAndFinally(i, ImageProcessingError)
    /\ UNCHANGED <<startVars, storageVars, manualApiKey, imageFile, result, history, historyKind,
                   now, completed, isConsultationModalOpen,
                   contactVars>>
    /\ UNCHANGED imageVars

\* ai.models.generateContent rejects
GenerateReject(i, e) ==
    /\ i \in 1..Len(calls)
    /\ calls[i].stage = "generateContent"
    /\ CatchAndFinally(i, e)
    /\ UNCHANGED <<startVars, storageVars, manualApiKey, imageFile, result, history, historyKind,
                   now, completed, isConsultationModalOpen,
                   contactVars>>
    /\ UNCHANGED imageVars

\* ai.models.generateContent resolves with response.text = text
GenerateResolve(i, text) ==
    /\ i \in 1..Len(calls)
    /\ calls[i].stage = "generateContent"
    /\ IF text.kind = "empty"
       THEN /\ CatchAndFinally(i, NoResponseError)
            /\ UNCHANGED <<result, history, historyKind, lsHistory, now, completed>>
       ELSE IF text.kind \notin {"json", "null"}
       THEN /\ CatchAndFinally(i, JsonSyntaxError)
            /\ UNCHANGED <<result, history, historyKind, lsHistory, now, completed>>
       ELSE LET resultJson == IF text.kind = "null" THEN JsonNull ELSE text.value
                saved == saveToHistory(resultJson, calls[i].history, lsHistory, now)
            IN  /\ result' = IF text.kind = "null" THEN None ELSE Some(resultJson)
                /\ IF calls[i].historyKind # "array"
                   THEN \* [newItem, ...history]: the captured history is not iterable
                        /\ CatchAndFinally(i, NotIterableError)
                        /\ UNCHANGED <<history, historyKind, lsHistory, now, completed>>
                   ELSE /\ history' = saved.history
                        /\ historyKind' = "array"
                        /\ lsHistory' = saved.stored
                        /\ now' = now + 1
                        /\ IF saved.threw
                           THEN /\ CatchAndFinally(i, QuotaExceededError)
                                /\ UNCHANGED completed
                           ELSE /\ isLoading' = FALSE
                                /\ calls' = RemoveAt(calls, i)
                                /\ completed' = completed + 1
                                /\ UNCHANGED <<error, isSettingsModalOpen>>
    /\ UNCHANGED <<startVars, lsKey, manualApiKey, imageFile,
                   isConsultationModalOpen, contactVars>>
    /\ UNCHANGED imageVars

\* ------------------------------------------------------------ contact form
\* the inputs of the consultation form, by their name attribute
FormFields == {"name", "age", "gender", "phone", "email", "message"}

\* useState({...}) of ConsultationModal
DefaultFormData ==
    [name |-> "", age |-> "", gender |-> "male", phone |-> "", email |-> "",
     message |-> ""]

\* what the user can leave in each input: it empty or one entry, and for
\* the select one of two options
FieldInputs ==
    [name |-> {"", "Kim"}, age |-> {"", "15"}, gender |-> {"male", "female"},
     phone |-> {"", "010"}, email |-> {"", "a@b.c"}, message |-> {"", "hello"}]

\* the six inputs carry the required attribute: the browser raises the
\* submit event only when none of them is empty
FormValid(data) == \A f \in FormFields : data[f] # ""

\* handleChange of ConsultationModal for the input called name
handleChange(name, value) ==
    /\ isConsultationModalOpen
    /\ value \in FieldInputs[name]
    /\ formData' = Some([formData[1] EXCEPT ![name] = value])
    /\ UNCHANGED <<startVars, storageVars, manualApiKey, analysisVars, modalVars,
                   isSending, formMessage, sends, timers>>
    /\ UNCHANGED imageVars

OpenConsultation ==
    /\ ResultViewShown
    /\ formMessage' = "null"
    /\ isConsultationModalOpen' = TRUE
    /\ formData' = IF isConsultationModalOpen THEN formData ELSE Some(DefaultFormData)
    /\ UNCHANGED <<startVars, storageVars, manualApiKey, analysisVars,
                   isSettingsModalOpen, isSending, sends, timers>>
    /\ UNCHANGED imageVars

CloseConsultation ==
    /\ isConsultationModalOpen
    /\ isConsultationModalOpen' = FALSE
    /\ formData' = None
    /\ UNCHANGED <<startVars, storageVars, manualApiKey, analysisVars,
                   isSettingsModalOpen, isSending, formMessage, sends, timers>>
    /\ UNCHANGED imageVars

\* the analysis fields handleFormSubmit adds to the form data:
\* cobb_angle: result?.cobbAngle?.toFixed(1), classification: result?.classification
TemplateParams(res) ==
    [cobb_angle |->
        IF res = None \/ "cobbAngle" \notin DOMAIN res[1] THEN Undefined
        ELSE ToFixed1(res[1].cobbAngle),
     classification |->
        IF res = None \/ "classification" \notin DOMAIN res[1] THEN Undefined
        ELSE res[1].classification]

\* mutant: the send is issued without looking for window.emailjs
handleFormSubmit_NoLibraryCheck ==
    /\ SubmitButtonEnabled
    /\ timers < MaxTimers
    /\ FormValid(formData[1])
    /\ formMessage' = "null"
    /\ isSending' = TRUE
    /\ sends' = Append(sends, Spread(formData[1], TemplateParams(result)))
    /\ UNCHANGED <<startVars, storageVars, manualApiKey, analysisVars, modalVars, timers,
                   formData>>
    /\ UNCHANGED imageVars

\* handleFormSubmit up to its first await
handleFormSubmit ==
    /\ SubmitButtonEnabled
    /\ FormValid(formData[1])
    /\ timers < MaxTimers
    /\ IF ~emailjs
       THEN /\ formMessage' = "error"
            /\ isSending' = FALSE
            /\ UNCHANGED sends
       ELSE /\ formMessage' = "null"
            /\ isSending' = TRUE
            /\ sends' = Append(sends, Spread(formData[1], TemplateParams(result)))
    /\ UNCHANGED <<startVars, storageVars, manualApiKey, analysisVars, modalVars, timers,
                   formData>>
    /\ UNCHANGED imageVars

\* mutant: a rejected send closes the panel
SendSettle_ClosesOnFailure(ok) ==
    /\ sends # << >>
    /\ sends' = Tail(sends)
    /\ isSending' = FALSE
    /\ IF ok
       THEN /\ formMessage' = "success"
            /\ timers' = timers + 1
            /\ UNCHANGED <<isConsultationModalOpen, formData>>
       ELSE /\ formMessage' = "error"
            /\ isConsultationModalOpen' = FALSE
            /\ formData' = None
            /\ UNCHANGED timers
    /\ UNCHANGED <<startVars, storageVars, manualApiKey, analysisVars,
                   isSettingsModalOpen>>
    /\ UNCHANGED imageVars

\* window.emailjs.send settles
SendSettle(ok) ==
    /\ sends # << >>
    /\ sends' = Tail(sends)
    /\ isSending' = FALSE
    /\ IF ok
       THEN /\ formMessage' = "success"
            /\ timers' = timers + 1
       ELSE /\ formMessage' = "error"
            /\ UNCHANGED timers
    /\ UNCHANGED <<startVars, storageVars, manualApiKey, analysisVars, modalVars,
                   formData>>
    /\ UNCHANGED imageVars

\* setTimeout(() => setIsConsultationModalOpen(false), 3000) fires
AutoCloseTimer ==
    /\ timers > 0
    /\ timers' = timers - 1
    /\ isConsultationModalOpen' = FALSE
    /\ formData' = None
    /\ UNCHANGED <<startVars, storageVars, manualApiKey, analysisVars,
                   isSettingsModalOpen, isSending, formMessage,
                   sends>>
    /\ UNCHANGED imageVars

\* ------------------------------------------------------ image preparation
MAX_WIDTH == 1024
MAX_HEIGHT == 1024

\* how far around the limit the sides of the decoded images are taken
SideSpread == 2

\* img.width and img.height of the decoded images: sides around the limit,
\* below it and well above it
ImageSides ==
    {1, 500, 1000, 1122, 1500, 2000, 2048, 3000, 4000}
        \cup ((MAX_WIDTH - SideSpread)..(MAX_WIDTH + SideSpread))

Images == {[width |-> w, height |-> h] : w \in ImageSides, h \in ImageSides}

PowersOfTwo == {1, 2, 4, 8, 16, 32, 64, 128, 256, 512, 1024, 2048, 4096, 8192}

\* `length *= max / side' followed by the assignment of length to
\* canvas.width or canvas.height: max / side and the product are each rounded
\* to a double, and the canvas attribute, an unsigned long, drops the
\* fraction. The double product is within 2^-42 of length * max / side, so
\* the attribute is the integer quotient whenever the exact value is not an
\* integer; when it is one and max / side is not itself a double (side is
\* not a power of two) the product may also fall just below it.
ScaledLength(length, max, side) ==
    LET q == (length * max) \div side
    IN  IF (length * max) % side = 0 /\ side \notin PowersOfTwo
        THEN {q - 1, q}
        ELSE {q}

\* mutant: only an image wider than high is resized
ResizedDimensions_WideOnly(width, height) ==
    IF width > height
    THEN IF width > MAX_WIDTH
         THEN {[width |-> MAX_WIDTH, height |-> h] :
                  h \in ScaledLength(height, MAX_WIDTH, width)}
         ELSE {[width |-> width, height |-> height]}
    ELSE {[width |-> width, height |-> height]}

\* mutant: the side is scaled to the limit whenever it differs from it
ResizedDimensions_AlwaysScaled(width, height) ==
    IF width > height
    THEN IF width # MAX_WIDTH
         THEN {[width |-> MAX_WIDTH, height |-> h] :
                  h \in ScaledLength(height, MAX_WIDTH, width)}
         ELSE {[width |-> width, height |-> height]}
    ELSE IF height # MAX_HEIGHT
         THEN {[width |-> w, height |-> MAX_HEIGHT] :
                  w \in ScaledLength(width, MAX_HEIGHT, height)}
         ELSE {[width |-> width, height |-> height]}

\* the resize logic of img.onload and the two assignments to the canvas:
\* the dimensions the canvas can get for an image of width x height
ResizedDimensions(width, height) ==
    IF width > height
    THEN IF width > MAX_WIDTH
         THEN {[width |-> MAX_WIDTH, height |-> h] :
                  h \in ScaledLength(height, MAX_WIDTH, width)}
         ELSE {[width |-> width, height |-> height]}
    ELSE IF height > MAX_HEIGHT
         THEN {[width |-> w, height |-> MAX_HEIGHT] :
                  w \in ScaledLength(width, MAX_HEIGHT, height)}
         ELSE {[width |-> width, height |-> height]}

pageVars ==
    <<startVars, storageVars, manualApiKey, analysisVars, modalVars, contactVars>>

\* img.onload of compressImage; ctx is whether getContext('2d') gave a context
ImgOnload(ctx) ==
    /\ img # None
    /\ prepared = "pending"
    /\ \E d \in ResizedDimensions(img[1].width, img[1].height) : canvas' = Some(d)
    /\ prepared' = IF ctx THEN "resolved" ELSE "rejected"
    /\ UNCHANGED <<img, pageVars>>

\* img.onerror or reader.onerror of compressImage
LoadFails ==
    /\ img # None
    /\ prepared = "pending"
    /\ prepared' = "rejected"
    /\ UNCHANGED <<img, canvas, pageVars>>

\* ------------------------------------------------------------ specification
Next ==
    \/ Initialize
    \/ WindowLoad
    \/ \E file \in Files : handleFileSelect(file)
    \/ \E key \in KeyCandidates : handleSaveApiKey(key)
    \/ handleAnalyze
    \/ handleReset
    \/ OpenSettings
    \/ CloseSettings
    \/ \E i \in 1..Len(calls), ok \in BOOLEAN : CompressSettle(i, ok)
    \/ \E i \in 1..Len(calls), e \in ApiErrorTexts : GenerateReject(i, e)
    \/ \E i \in 1..Len(calls), text \in ResponseTexts : GenerateResolve(i, text)

Spec == Init /\ [][Next]_vars

\* the analysis workflow on a deployment with an injected key, the AI
\* answering with anything its response schema admits
InitOutput ==
    /\ env = NodeEnv
    /\ lsKey = None
    /\ lsHistory = StoredAbsent
    /\ emailjs = TRUE
    /\ Fresh
    /\ NoPreparation

NextOutput ==
    \/ Initialize
    \/ WindowLoad
    \/ \E file \in Files : handleFileSelect(file)
    \/ \E key \in KeyCandidates : handleSaveApiKey(key)
    \/ handleAnalyze
    \/ handleReset
    \/ OpenSettings
    \/ CloseSettings
    \/ \E i \in 1..Len(calls), ok \in BOOLEAN : CompressSettle(i, ok)
    \/ \E i \in 1..Len(calls), e \in ApiErrorTexts : GenerateReject(i, e)
    \/ \E i \in 1..Len(calls), text \in AnyResponseTexts : GenerateResolve(i, text)

SpecOutput == InitOutput /\ [][NextOutput]_vars

\* one analysis and the consultation form that follows it, on a deployment
\* with an injected key, the email library loaded or not; the panel is
\* opened with the button of the result view while it is closed
InitContact ==
    /\ env = NodeEnv
    /\ lsKey = None
    /\ lsHistory = StoredAbsent
    /\ emailjs \in BOOLEAN
    /\ Fresh
    /\ NoPreparation

NextContact ==
    \/ Initialize
    \/ WindowLoad
    \/ \E file \in Files : handleFileSelect(file)
    \/ handleAnalyze
    \/ \E i \in 1..Len(calls), ok \in BOOLEAN : CompressSettle(i, ok)
    \/ \E i \in 1..Len(calls), text \in ResponseTexts : GenerateResolve(i, text)
    \/ ~isConsultationModalOpen /\ OpenConsultation
    \/ CloseConsultation
    \/ \E name \in FormFields : \E value \in FieldInputs[name] : handleChange(name, value)
    \/ handleFormSubmit
    \/ \E ok \in BOOLEAN : SendSettle(ok)
    \/ AutoCloseTimer

SpecContact == InitContact /\ [][NextContact]_vars

\* the analysis workflow over everything 'scolio_history' can hold at start
InitStored ==
    /\ env = NodeEnv
    /\ lsKey = None
    /\ lsHistory \in {StoredAbsent, StoredCorrupt, JSONStringify(<<EarlierItem>>)}
                      \cup StoredNonArrays
    /\ emailjs = TRUE
    /\ Fresh
    /\ NoPreparation

NextStored ==
    \/ Initialize
    \/ WindowLoad
    \/ \E file \in Files : handleFileSelect(file)
    \/ handleAnalyze
    \/ handleReset
    \/ \E i \in 1..Len(calls), ok \in BOOLEAN : CompressSettle(i, ok)
    \/ \E i \in 1..Len(calls), e \in ApiErrorTexts : GenerateReject(i, e)
    \/ \E i \in 1..Len(calls), text \in ResponseTexts : GenerateResolve(i, text)

SpecStored == InitStored /\ [][NextStored]_vars

\* compressImage alone, over the decoded images
InitImage ==
    /\ env = NoEnv
    /\ lsKey = None
    /\ lsHistory = StoredAbsent
    /\ emailjs = TRUE
    /\ Fresh
    /\ img \in {Some(i) : i \in Images}
    /\ canvas = None
    /\ prepared = "pending"

NextImage ==
    \/ \E ctx \in BOOLEAN : ImgOnload(ctx)
    \/ LoadFails

SpecImage == InitImage /\ [][NextImage]_vars

\* the analysis workflow alone, over every deployment
NextCred ==
    \/ Initialize
    \/ WindowLoad
    \/ \E file \in Files : handleFileSelect(file)
    \/ \E key \in KeyCandidates : handleSaveApiKey(key)
    \/ handleAnalyze
    \/ handleReset
    \/ OpenSettings
    \/ CloseSettings
    \/ \E i \in 1..Len(calls), ok \in BOOLEAN : CompressSettle(i, ok)
    \/ \E i \in 1..Len(calls), e \in ApiErrorTexts : GenerateReject(i, e)
    \/ \E i \in 1..Len(calls), text \in ResponseTexts : GenerateResolve(i, text)

SpecCred == InitCred /\ [][NextCred]_vars

\* ------------------------------------------------------------------ claims
\* the calls that have issued generateContent and not yet settled
InFlight == SelectSeq(calls, LAMBDA c : c.stage = "generateContent")

\* C1: in every reachable state at most one generateContent call issued by
\* handleAnalyze is outstanding, and while any handleAnalyze invocation is
\* outstanding the busy flag isLoading is set (so no second one can start).
C1_AtMostOneAnalysisInFlight ==
    /\ Len(InFlight) <= 1
    /\ Len(calls) <= 1
    /\ calls # << >> => isLoading

\* a call is outstanding after an earlier analysis completed, the user has
\* since picked another file and saved a key
C1_Witness ==
    /\ Len(InFlight) = 1
    /\ Len(history) >= 1
    /\ imageFile # calls[1].file
    /\ manualApiKey \notin {EmptyStr, EarlierKey}

\* C2 (as claimed): when the user has selected a different image since an
\* analysis call was issued, the completion of that call neither displays
\* its result nor appends it to the history.
C2_StaleResultDiscarded ==
    [][\A i \in 1..Len(calls) :
          (calls[i].file # imageFile /\ calls' = RemoveAt(calls, i))
              => (result' = None /\ history' = history)]_vars

\* generateContent of call i resolves with the JSON text of payload p
ResolvesWith(i, p) == GenerateResolve(i, [kind |-> "json", value |-> p])

\* s is a suffix of t
IsSuffix(s, t) ==
    /\ Len(s) <= Len(t)
    /\ SubSeq(t, Len(t) - Len(s) + 1, Len(t)) = s

\* the records of the persisted sequence (none when absent or unparseable)
StoredItems == lsHistory.items

\* C3 (as claimed): when the AI call of an outstanding analysis returns
\* {cobbAngle: a, classification: "Mild"}, then after completion the
\* displayed result is that record, the interpreter gives it the mild tier
\* and the consult-recommended text, the error message is empty, the busy
\* flag is false, and the history (in memory and persisted) has gained
\* exactly one record carrying that angle and classification.
C3_EndToEndSuccess ==
    [][\A i \in 1..Len(calls), p \in Payloads :
          (p.classification = Mild /\ ResolvesWith(i, p))
              => /\ result' = Some(p)
                 /\ getResultCardClassName(result'[1].classification) = "mild"
                 /\ getResultContent(result'[1].classification)
                        = "TEXT_MILD_CONSULT_RECOMMENDED"
                 /\ error' = MsgNone
                 /\ ~isLoading'
                 /\ Len(history') = Len(history) + 1
                 /\ Head(history').cobbAngle = p.cobbAngle
                 /\ Head(history').classification = Mild
                 /\ Len(StoredItems') = Len(StoredItems) + 1
                 /\ Head(StoredItems') = Head(history')]_vars

C5_AppendWritesBack ==
    [][\A i \in 1..Len(calls), p \in Payloads :
          ResolvesWith(i, p)
              => /\ lsHistory'.kind = "array"
                 /\ StoredItems' = history'
                 /\ Len(history') = Len(StoredItems) + 1
                 /\ Tail(history') = StoredItems
                 /\ Head(history').cobbAngle = p.cobbAngle
                 /\ Head(history').classification = p.classification]_vars

\* an outstanding analysis completes with its result displayed and no error
AnalysisSucceeds ==
    /\ \E i \in 1..Len(calls) : calls' = RemoveAt(calls, i)
    /\ result' # None
    /\ error' = MsgNone

\* C6 (as claimed): a successful analysis puts one new record in front of
\* the history and keeps every earlier record, in order, behind it; every
\* other operation after start-up (a failed analysis included) leaves the
\* persisted and the in-memory history unchanged.
C6_HistoryAppendOnly ==
    [][IF AnalysisSucceeds
       THEN /\ Len(history') = Len(history) + 1
            /\ Tail(history') = history
            /\ lsHistory'.kind = "array"
            /\ Head(StoredItems') = Head(history')
            /\ IsSuffix(StoredItems, Tail(StoredItems'))
       ELSE Initialize \/ UNCHANGED <<history, lsHistory>>]_vars

\* C7: at startup, when the value under 'scolio_history' does not parse, the
\* in-memory history is the empty list, no error message is set, and the
\* rest of the effect still runs: the saved key has been loaded and the
\* email client is initialised (or its initialisation is registered for the
\* window load event).
C7_CorruptHistoryLoadsEmpty ==
    [][(Initialize /\ JSONParse(lsHistory).threw /\ lsHistory # StoredAbsent)
          => /\ mounted'
             /\ history' = << >>
             /\ error' = MsgNone
             /\ manualApiKey' = StoredKeyOrEmpty(lsKey)
             /\ \/ emailInitialized' = emailjs /\ ~loadListener'
                \/ loadListener' /\ ~emailInitialized']_vars

\* the session started on an unparseable history with a saved key and the
\* email library present; nothing else has happened yet
C7_Witness ==
    /\ mounted
    /\ lsHistory = StoredCorrupt
    /\ history = << >>
    /\ error = MsgNone
    /\ manualApiKey = EarlierKey
    /\ emailInitialized
    /\ calls = << >>
    /\ imageFile = 0

\* the first non-empty string of a sequence, the empty string if none
RECURSIVE FirstNonEmpty(_)
FirstNonEmpty(keys) ==
    IF keys = << >> THEN EmptyStr
    ELSE IF Head(keys) # EmptyStr THEN Head(keys)
    ELSE FirstNonEmpty(Tail(keys))

\* C8: the key an analysis call is started with is the first non-empty of
\* VITE_API_KEY, REACT_APP_API_KEY, NEXT_PUBLIC_API_KEY, API_KEY and the
\* user-saved key; so with only a user-saved key that key is used, and with
\* an environment key and a user-saved key the environment key is used.
C8_CredentialPrecedence ==
    [][Len(calls') > Len(calls)
          => LET used == calls'[Len(calls')].apiKey
                 saved == StoredKeyOrEmpty(lsKey)
                 envKey == FirstNonEmpty(<<env.VITE_API_KEY, env.REACT_APP_API_KEY,
                                           env.NEXT_PUBLIC_API_KEY, env.API_KEY>>)
             IN  /\ used = FirstNonEmpty(<<env.VITE_API_KEY, env.REACT_APP_API_KEY,
                                           env.NEXT_PUBLIC_API_KEY, env.API_KEY,
                                           saved>>)
                 /\ (envKey = EmptyStr /\ saved # EmptyStr) => used = saved
                 /\ (envKey # EmptyStr /\ saved # EmptyStr) => used = envKey]_vars

\* a call was started with the NEXT_PUBLIC_API_KEY alias although a key is
\* saved on the device, the two aliases before it being empty and the one
\* after it set
C8_Witness ==
    /\ calls # << >>
    /\ env.VITE_API_KEY = EmptyStr
    /\ env.REACT_APP_API_KEY = EmptyStr
    /\ env.NEXT_PUBLIC_API_KEY = NextKey
    /\ env.API_KEY = NodeKey
    /\ lsKey = Some(EarlierKey)
    /\ manualApiKey = EarlierKey
    /\ calls[1].apiKey = NextKey

\* C9: when analyze is triggered while the environment key, the in-memory
\* manual key and the stored key are all empty, no image preparation and no
\* AI call is started, the busy flag stays false, the settings panel is
\* open and the credentials-missing message is set.
C9_NoCredentialNoCall ==
    [][(/\ manualApiKey = EmptyStr
        /\ StoredKeyOrEmpty(lsKey) = EmptyStr
        /\ getEnvConfig(env).apiKey = EmptyStr
        /\ handleAnalyze)
          => /\ calls' = calls
             /\ ~isLoading /\ ~isLoading'
             /\ isSettingsModalOpen'
             /\ error' = MsgKeyRequired
             /\ UNCHANGED <<result, history, lsHistory, imageFile>>]_vars

\* analyze was pressed with no key anywhere
C9_Witness ==
    /\ getEnvConfig(env).apiKey = EmptyStr
    /\ manualApiKey = EmptyStr
    /\ lsKey = None
    /\ imageFile # 0
    /\ isSettingsModalOpen
    /\ error = MsgKeyRequired
    /\ calls = << >>
    /\ ~isLoading

\* C10: for every candidate string, submitting it to handleSaveApiKey
\* leaves the stored key, the manual key, the error message and the
\* settings panel as they are when its trimmed length is at most 10, and
\* persists exactly the trimmed value under 'gemini_api_key' when its
\* trimmed length is more than 10.
C10_SaveKeyTrimmedLength ==
    isSettingsModalOpen
        => \A key \in KeyCandidates :
              IF Len(Trim(key)) <= MinKeyLength
              THEN ~ENABLED (/\ handleSaveApiKey(key)
                             /\ <<lsKey, manualApiKey, error, isSettingsModalOpen>>'
                                  # <<lsKey, manualApiKey, error, isSettingsModalOpen>>)
              ELSE /\ ENABLED (handleSaveApiKey(key) /\ lsKey' = Some(Trim(key)))
                   /\ ~ENABLED (handleSaveApiKey(key) /\ lsKey' # Some(Trim(key)))

\* a padded key of trimmed length 11 was saved over the credentials-missing
\* prompt: it is stored without its padding and the panel is closed
C10_Witness ==
    /\ lsKey # None
    /\ lsKey # Some(EarlierKey)
    /\ Len(lsKey[1]) = MinKeyLength + 1
    /\ \E key \in KeyCandidates : Len(key) > Len(lsKey[1]) /\ Trim(key) = lsKey[1]
    /\ manualApiKey = lsKey[1]
    /\ ~isSettingsModalOpen
    /\ error = MsgNone

\* C11: with no environment key present, an accepted save replaces whatever
\* key was there before, in storage and in memory at once, and the next
\* analysis started in the session is issued with exactly the key saved
\* last.
C11_SavedKeyUsedNext ==
    [][getEnvConfig(env).apiKey = EmptyStr
          => /\ lsKey' # lsKey
                   => /\ lsKey' # None
                      /\ manualApiKey' = lsKey'[1]
             /\ (Len(calls') > Len(calls) /\ lsKey # None)
                   => calls'[Len(calls')].apiKey = lsKey[1]]_vars

\* an analysis is outstanding that was started with a key saved in this
\* session, no environment key being present
C11_Witness ==
    /\ getEnvConfig(env).apiKey = EmptyStr
    /\ lsKey # None
    /\ lsKey # Some(EarlierKey)
    /\ calls # << >>
    /\ calls[1].apiKey = lsKey[1]
    /\ calls[1].apiKey \in {KeyValidation[key].trimmedKey : key \in KeyCandidates}

\* a step in which an outstanding call of handleAnalyze ends
CallEnds == Len(calls') < Len(calls)

\* the lowercased text signals a rate limit
SignalsRateLimit(e) ==
    \/ Includes(ToLowerCase(e), <<"4", "2", "9">>)
    \/ Includes(ToLowerCase(e), <<"q", "u", "o", "t", "a">>)

\* the rejections of the AI call that signal a rate limit
RateLimitTexts == {e \in ApiErrorTexts : SignalsRateLimit(e)}

\* C12: when the AI call of an outstanding analysis rejects with an error
\* whose lowercased text contains '429' or 'quota', the rate-limit message
\* is the error shown, the settings panel is open, no result is displayed,
\* the history (in memory and persisted) is unchanged and the busy flag is
\* cleared.
C12_RateLimitEndToEnd ==
    [][CallEnds => \A i \in 1..Len(calls), e \in RateLimitTexts :
          GenerateReject(i, e)
              => /\ error' = MsgQuota
                 /\ isSettingsModalOpen'
                 /\ result' = None
                 /\ UNCHANGED <<history, lsHistory>>
                 /\ ~isLoading'
                 /\ calls' = << >>]_vars

\* an analysis has just failed on a rate limit after an earlier one had
\* succeeded: the prompt is up, nothing is displayed, the earlier record is
\* all the history holds
C12_Witness ==
    /\ error = MsgQuota
    /\ isSettingsModalOpen
    /\ result = None
    /\ ~isLoading
    /\ calls = << >>
    /\ imageFile # 0
    /\ completed = 1
    /\ Len(history) = 1
    /\ StoredItems = history

\* a step in which an outstanding analysis ends without a result
AnalysisFails ==
    /\ \E i \in 1..Len(calls) : calls' = RemoveAt(calls, i)
    /\ result' = None

\* C13: an analysis failure opens the settings panel exactly when it is
\* classified as a rate limit or as an authentication failure; a failure
\* classified as bad input, content-policy block or transport error, a
\* failed image preparation and an empty response among them, leaves the
\* panel as it was.
C13_SettingsOpenedByClass ==
    [][/\ AnalysisFails
             => IF error' \in {MsgQuota, MsgAuth}
                THEN isSettingsModalOpen'
                ELSE /\ error' \in {MsgBadImage, MsgSafety, MsgNetwork}
                     /\ isSettingsModalOpen' = isSettingsModalOpen
       /\ CallEnds => \A i \in 1..Len(calls) :
             (\/ CompressSettle(i, FALSE)
              \/ GenerateResolve(i, [kind |-> "empty", value |-> NoPayload]))
                 => /\ error' = MsgNetwork
                    /\ isSettingsModalOpen' = isSettingsModalOpen]_vars

\* a content-policy failure left the panel closed
C13_Witness ==
    /\ error = MsgSafety
    /\ ~isSettingsModalOpen
    /\ ~isLoading
    /\ calls = << >>
    /\ result = None
    /\ imageFile # 0

\* C14: whenever an analysis that started a call ends in failure (image
\* preparation failure, rejected AI call, empty response, unparseable
\* payload), the handler finishes with a non-empty error message and the
\* busy flag false.
C14_FailureCaughtAndShown ==
    [][CallEnds => \A i \in 1..Len(calls) :
          (\/ CompressSettle(i, FALSE)
           \/ \E e \in ApiErrorTexts : GenerateReject(i, e)
           \/ GenerateResolve(i, [kind |-> "empty", value |-> NoPayload])
           \/ GenerateResolve(i, [kind |-> "garbage", value |-> NoPayload]))
              => /\ error' # MsgNone
                 /\ ~isLoading'
                 /\ calls' = RemoveAt(calls, i)
                 /\ result' = None]_vars

\* the image of the second analysis of a session could not be prepared
C14_Witness ==
    /\ error = MsgNetwork
    /\ ~isLoading
    /\ calls = << >>
    /\ result = None
    /\ imageFile # 0
    /\ completed = 1
    /\ ~isSettingsModalOpen

\* the text parses into {cobbAngle: number, classification: string}
WellShaped(text) == text.kind = "json"

\* C15 (as claimed): when the response of an outstanding analysis carries no
\* payload text, or a payload that does not parse into the two-field shape
\* {cobbAngle: number, classification: string}, the analysis fails: an
\* error is shown, no result is displayed and nothing is appended to the
\* history, in memory or persisted.
C15_MalformedOutputRejected ==
    [][CallEnds => \A i \in 1..Len(calls), text \in AnyResponseTexts :
          (~WellShaped(text) /\ GenerateResolve(i, text))
              => /\ error' # MsgNone
                 /\ result' = None
                 /\ UNCHANGED <<history, lsHistory>>]_vars

\* the record has both fields of an AnalysisResult
HasResultFields(r) == {"cobbAngle", "classification"} \subseteq DOMAIN r

\* the record is an AnalysisResult of the data model
ConformsToDataModel(r) ==
    /\ HasResultFields(r)
    /\ r.classification \in {Normal, Mild, HighRisk, Inconclusive}
    /\ IF r.classification = Inconclusive THEN r.cobbAngle = -1 ELSE r.cobbAngle >= 0

\* C16 (as claimed): in every reachable state, the displayed result and
\* every record of the history, in memory and persisted, has a
\* classification that is one of Normal, Mild, High-Risk, Inconclusive, and
\* its cobbAngle is -1 if the classification is Inconclusive and is
\* non-negative otherwise.
C16_ResultsConformToDataModel ==
    /\ result # None => ConformsToDataModel(result[1])
    /\ \A k \in 1..Len(history) : ConformsToDataModel(history[k])
    /\ \A k \in 1..Len(StoredItems) : ConformsToDataModel(StoredItems[k])

\* the text shows a number
HasDigit(s) == \E k \in 1..Len(s) : \E d \in 1..Len(DigitChars) : s[k] = DigitChars[d]

\* the record is classified Inconclusive
IsInconclusive(r) == "classification" \in DOMAIN r /\ r.classification = Inconclusive

\* C17 (as claimed): for every result classified Inconclusive, the result
\* card, its row in the history list and the angle field of a contact
\* submission made for it show the placeholder and never a number.
C17_InconclusiveNeverNumeric ==
    /\ (result # None /\ IsInconclusive(result[1]))
          => ~HasDigit(ResultAngleText(result[1]))
    /\ \A k \in 1..Len(history) :
          IsInconclusive(history[k]) => ~HasDigit(HistoryAngleText(history[k]))
    /\ \A k \in 1..Len(sends) :
          sends[k].classification = Inconclusive => ~HasDigit(sends[k].cobb_angle)

\* classification strings: the four of the data model, each also in lower
\* case, one in upper case, one that is none of them, and the empty string
ClassificationInputs ==
    {Normal, Mild, HighRisk, Inconclusive}
        \cup {ToLowerCase(c) : c \in {Normal, Mild, HighRisk, Inconclusive}}
        \cup {<<"H", "I", "G", "H", "-", "R", "I", "S", "K">>,
              <<"S", "e", "v", "e", "r", "e">>, EmptyStr}

\* the tier and the text the interpreter has for each enumerated
\* classification, and for anything else
ExpectedTier(c) ==
    CASE c = Normal -> <<"normal", "TEXT_NORMAL_RANGE">>
      [] c = Mild -> <<"mild", "TEXT_MILD_CONSULT_RECOMMENDED">>
      [] c = HighRisk -> <<"high-risk", "TEXT_HIGH_RISK_DIAGNOSIS_NEEDED">>
      [] c = Inconclusive -> <<"high-risk", "TEXT_ANALYSIS_FAILED_RETRY">>
      [] OTHER -> <<"", "TEXT_CHECK_YOUR_RESULTS">>

\* what the result view gets from the interpreter for a classification
Interpreted(c) == <<getResultCardClassName(c), getResultContent(c)>>

\* C18: for the classification string of every displayed result,
\* getResultCardClassName and getResultContent return a tier and a text;
\* every string equal to it ignoring case gets the same tier and text; a
\* string equal ignoring case to one of the four enumerated classifications
\* gets that classification's tier and text, and any other string gets the
\* neutral tier (empty style class, 'check your results' text).
C18_InterpreterTotalCaseInsensitive ==
    (result # None /\ "classification" \in DOMAIN result[1])
        => LET c == result[1].classification
               named == {n \in {Normal, Mild, HighRisk, Inconclusive} :
                            ToLowerCase(n) = ToLowerCase(c)}
           IN  /\ Interpreted(c)[1] \in {"normal", "mild", "high-risk", ""}
               /\ \A t \in ClassificationInputs :
                     ToLowerCase(t) = ToLowerCase(c) => Interpreted(t) = Interpreted(c)
               /\ \A n \in named : Interpreted(c) = ExpectedTier(n)
               /\ named = {} => Interpreted(c) = ExpectedTier(c)

\* a result whose classification is High-Risk written in capitals is
\* displayed
C18_Witness ==
    /\ result # None
    /\ result[1].classification = <<"H", "I", "G", "H", "-", "R", "I", "S", "K">>
    /\ result[1].classification # HighRisk
    /\ ~isLoading

\* a / b rounded to the nearest integer, halves upwards
Round(a, b) == (2 * a + b) \div (2 * b)

\* C19: whenever compressImage resolves for an image with width >= height
\* and width > 1024, the canvas is 1024 wide and round(height * 1024 / width)
\* high; for an image with height > width and height > 1024 it is 1024 high
\* and round(width * 1024 / height) wide.
C19_DownscaleFormula ==
    (prepared = "resolved")
        => LET w == img[1].width
               h == img[1].height
           IN  /\ (w >= h /\ w > MAX_WIDTH)
                     => canvas[1] = [width |-> MAX_WIDTH,
                                     height |-> Round(h * MAX_WIDTH, w)]
               /\ (h > w /\ h > MAX_HEIGHT)
                     => canvas[1] = [width |-> Round(w * MAX_HEIGHT, h),
                                     height |-> MAX_HEIGHT]

\* C20: whenever compressImage resolves for an image whose width and height
\* are both at most 1024, the canvas has the width and the height of the
\* image.
C20_NoUpscaling ==
    (prepared = "resolved" /\ img[1].width <= MAX_WIDTH /\ img[1].height <= MAX_HEIGHT)
        => canvas[1] = img[1]

\* compressImage has resolved for an image 1000 wide and 500 high
C20_Witness ==
    /\ prepared = "resolved"
    /\ img[1] = [width |-> 1000, height |-> 500]
    /\ canvas # None

\* C21: whenever compressImage resolves, for an image of any size, the
\* canvas is at most 1024 wide and at most 1024 high.
C21_BoundingBox ==
    (prepared = "resolved")
        => /\ canvas[1].width <= MAX_WIDTH
           /\ canvas[1].height <= MAX_HEIGHT

\* compressImage has resolved for a square image with both sides over the
\* limit
C21_Witness ==
    /\ prepared = "resolved"
    /\ img[1] = [width |-> 2000, height |-> 2000]
    /\ canvas # None

\* C28: for every image with width >= 1 and height >= 1, the canvas
\* compressImage has sized is at least 1 wide and at least 1 high.
C28_NeverDegenerate ==
    (canvas # None /\ img[1].width >= 1 /\ img[1].height >= 1)
        => /\ canvas[1].width >= 1
           /\ canvas[1].height >= 1

\* C22: while isSending is true no emailjs.send call is started; at most
\* one emailjs.send call is outstanding at any time; and when an
\* emailjs.send call settles, with success or with failure, isSending is
\* false.
C22_NoDoubleSubmission ==
    [][/\ isSending => Len(sends') <= Len(sends)
       /\ Len(sends') <= 1
       /\ Len(sends') < Len(sends) => ~isSending']_vars

\* a submission is being sent while the consultation panel is open
C22_Witness ==
    /\ isConsultationModalOpen
    /\ isSending
    /\ Len(sends) = 1

\* C23: when window.emailjs is absent, a submit of the contact form starts
\* no emailjs.send call, leaves the error message as the form message and
\* isSending false, and schedules no auto-close timer.
C23_EmailServiceUnavailable ==
    [][~emailjs
          => /\ sends' = << >>
             /\ timers' = 0
             /\ ~isSending'
             /\ handleFormSubmit => formMessage' = "error"]_vars

\* the form shows the error message on a page without the email library
C23_Witness ==
    /\ ~emailjs
    /\ isConsultationModalOpen
    /\ formMessage = "error"
    /\ ~isSending

\* an emailjs.send call settles with a rejection
SendRejects == Len(sends') < Len(sends) /\ formMessage' = "error"

NothingSentThisOpening ==
    isConsultationModalOpen /\ formMessage = "null" /\ ~isSending

\* C27: the consultation panel goes from open to closed only by the close
\* action of the user or by the auto-close timer of a submission that
\* succeeded during the current opening; a panel in which nothing was sent
\* since it was opened is not closed by the timer.
C27_AutoCloseOnlyCurrentOpening ==
    [][(isConsultationModalOpen /\ ~isConsultationModalOpen')
          => \/ CloseConsultation
             \/ AutoCloseTimer /\ ~NothingSentThisOpening]_vars

\* the patterns of the four named categories, in their order of precedence:
\* RateLimited, AuthFailure, BadInput, ContentPolicyBlock
CategoryPatterns ==
    << {<<"4", "2", "9">>, <<"q", "u", "o", "t", "a">>},
       {<<"k", "e", "y">>, <<"4", "0", "3">>, <<"4", "0", "1">>},
       {<<"4", "0", "0">>},
       {<<"s", "a", "f", "e", "t", "y">>} >>

\* the message shown for each category, TransportError last
CategoryMessages == <<MsgQuota, MsgAuth, MsgBadImage, MsgSafety, MsgNetwork>>

\* the categories whose patterns the lowercased text matches
MatchedCategories(e) ==
    {k \in 1..Len(CategoryPatterns) :
        \E p \in CategoryPatterns[k] : Includes(ToLowerCase(e), p)}

\* the earliest matched category, TransportError (5) when none matches
EarliestCategory(e) ==
    IF MatchedCategories(e) = {}
    THEN Len(CategoryMessages)
    ELSE CHOOSE k \in MatchedCategories(e) : \A j \in MatchedCategories(e) : k <= j

\* the error texts of the model that match the patterns of two categories
OverlappingTexts == {e \in ErrorTexts : Cardinality(MatchedCategories(e)) > 1}

\* the message of the earliest matched category, for every error text
ExpectedMessage == [e \in ErrorTexts |-> CategoryMessages[EarliestCategory(e)]]

\* C25: when the AI call of an outstanding analysis rejects with any error
\* text, the error shown is the message of exactly one of the five
\* categories: that of the earliest category, in the order RateLimited,
\* AuthFailure, BadInput, ContentPolicyBlock, one of whose patterns the
\* lowercased text contains, and that of TransportError when it contains
\* none.
C25_FirstMatchClassification ==
    [][CallEnds => \A i \in 1..Len(calls), e \in ApiErrorTexts :
          GenerateReject(i, e) => error' = ExpectedMessage[e]]_vars

\* an analysis failed before any had succeeded and was classified as an
\* authentication failure, while some error texts of the model match two
\* categories
C25_Witness ==
    /\ error = MsgAuth
    /\ isSettingsModalOpen
    /\ calls = << >>
    /\ completed = 0
    /\ Cardinality(OverlappingTexts) >= 3

\* C26: in every reachable state it is not the case that a result is
\* displayed (result is not null) and the error message is not empty.
C26_ResultAndErrorExclusive ==
    ~(result # None /\ error # MsgNone)

\* C30: whatever 'scolio_history' holds at start (nothing, text that does
\* not parse, the JSON of an array, or JSON of another type), once the
\* initialize effect has run the history state cell holds an array.
C30_HistoryIsAlwaysAList ==
    mounted => historyKind = "array"

\* the label denotes the tier of the text the result view shows: normal for
\* the normal range, mild for the mild one, danger for the high-risk one,
\* and no danger label for a failed analysis
LabelDenotesContent(label, content) ==
    CASE content = "TEXT_NORMAL_RANGE" -> label = LabelNormal
      [] content = "TEXT_MILD_CONSULT_RECOMMENDED" -> label = LabelMild
      [] content = "TEXT_HIGH_RISK_DIAGNOSIS_NEEDED" -> label = LabelDanger
      [] content = "TEXT_ANALYSIS_FAILED_RETRY" -> label # LabelDanger
      [] OTHER -> TRUE

\* C29: for every record of the history whose classification is one of the
\* four enumerated values in any letter case, the label of its row in the
\* history list denotes the tier getResultCardClassName and getResultContent
\* give that classification; an Inconclusive record does not get the danger
\* label.
C29_HistoryLabelMatchesResultView ==
    \A k \in 1..Len(history) :
        ("classification" \in DOMAIN history[k]
            /\ getResultCardClassName(history[k].classification) # "")
            => LabelDenotesContent(HistoryLabel(history[k]),
                                   getResultContent(history[k].classification))

====
